---------------------------- MODULE Spec2Model ----------------------------
(***************************************************************************)
(* fancy-duration (src/src/lib.rs): the breakdown engine                   *)
(* (DurationBreakdown), the text codec (format_internal, parse_to_ns) and  *)
(* the FancyDuration<std::time::Duration> wrapper, as a state machine of a *)
(* caller that holds one duration and one string and calls the public      *)
(* operations on them.                                                     *)
(*                                                                         *)
(* Numbers.  TLC's integers are 32 bits wide and the program's are u64, so *)
(* a u64 is modelled as its decimal digits, most significant first, with   *)
(* no leading zero (<<0>> is zero).  The arithmetic below is exact on      *)
(* naturals of any size; the places where the program's u64 arithmetic can *)
(* overflow apply u64_result to the exact value.                           *)
(*                                                                         *)
(* Text.  A string is the sequence of its characters, each a one-character *)
(* string.                                                                 *)
(***************************************************************************)
EXTENDS Integers, Sequences, FiniteSets, TLC

(***************************************************************************)
(* Naturals as decimal digit sequences.                                    *)
(***************************************************************************)
Zero == <<0>>

One == <<1>>

IsZero(a) == a = Zero

\* ds without its leading zeros
Strip(ds) ==
    IF \A i \in 1..Len(ds) : ds[i] = 0 THEN Zero
    ELSE SubSeq(ds, CHOOSE i \in 1..Len(ds) :
                        ds[i] # 0 /\ \A j \in 1..(i - 1) : ds[j] = 0,
                Len(ds))

RECURSIVE Nat10(_)
Nat10(n) == IF n < 10 THEN <<n>> ELSE Append(Nat10(n \div 10), n % 10)

\* The arithmetic works on groups of four digits, which keeps every
\* intermediate value in TLC's integers and the recursions short.

\* the digit of a at position i, and 0 left of its first digit
DigitAt(a, i) == IF i >= 1 THEN a[i] ELSE 0

\* the value of the j-th group of four digits of a, counted from the right
Group(a, j) ==
    DigitAt(a, Len(a) - 4 * j + 4) + 10 * DigitAt(a, Len(a) - 4 * j + 3)
        + 100 * DigitAt(a, Len(a) - 4 * j + 2)
        + 1000 * DigitAt(a, Len(a) - 4 * j + 1)

\* the number of groups of a
Groups(a) == (Len(a) + 3) \div 4

\* the number whose groups, most significant first, are gs
FromGroups(gs) ==
    Strip([p \in 1..(4 * Len(gs)) |->
               (gs[((p - 1) \div 4) + 1] \div (10 ^ (3 - ((p - 1) % 4)))) % 10])

RECURSIVE AddStep(_, _, _, _)
\* the groups of a + b from group j on, for the carry c into group j
AddStep(a, b, j, c) ==
    IF c = 0 /\ j > Groups(a) /\ j > Groups(b) THEN <<>>
    ELSE AddStep(a, b, j + 1, (Group(a, j) + Group(b, j) + c) \div 10000)
             \o <<(Group(a, j) + Group(b, j) + c) % 10000>>

Add(a, b) ==
    IF IsZero(a) THEN b ELSE IF IsZero(b) THEN a
    ELSE FromGroups(AddStep(a, b, 1, 0))

RECURSIVE SubStep(_, _, _, _)
\* the groups of a - b from group j on, for the borrow bw from group j; a - b
\* is not negative, so no borrow is left after the last group
SubStep(a, b, j, bw) ==
    IF bw = 0 /\ j > Groups(a) THEN <<>>
    ELSE SubStep(a, b, j + 1,
                 IF Group(a, j) - Group(b, j) - bw < 0 THEN 1 ELSE 0)
             \o <<(Group(a, j) - Group(b, j) - bw + 10000) % 10000>>

\* a - b for a >= b
Sub(a, b) == IF IsZero(b) THEN a ELSE FromGroups(SubStep(a, b, 1, 0))

RECURSIVE TrailingZeros(_)
\* the number of zeros that end the decimal form of k
TrailingZeros(k) ==
    IF k # 0 /\ k % 10 = 0 THEN 1 + TrailingZeros(k \div 10) ELSE 0

\* k without its trailing zeros: k = Mantissa(k) * 10 ^ TrailingZeros(k)
Mantissa(k) == k \div (10 ^ TrailingZeros(k))

\* a * 10^z
ShiftLeft(a, z) == Strip(a \o [i \in 1..z |-> 0])

\* a div 10^z
ShiftRight(a, z) == IF Len(a) <= z THEN Zero ELSE SubSeq(a, 1, Len(a) - z)

RECURSIVE MulStep(_, _, _, _)
\* the groups of a * m from group j on, for the carry c into group j
MulStep(a, m, j, c) ==
    IF c = 0 /\ j > Groups(a) THEN <<>>
    ELSE MulStep(a, m, j + 1, (Group(a, j) * m + c) \div 10000)
             \o <<(Group(a, j) * m + c) % 10000>>

\* a * k for a machine-size factor k whose mantissa is below 200000 (every
\* unit length of the program is one)
Mul(a, k) ==
    IF IsZero(a) THEN Zero
    ELSE ShiftLeft(FromGroups(MulStep(a, Mantissa(k), 1, 0)), TrailingZeros(k))

RECURSIVE DivStep(_, _, _, _)
\* long division by m: the quotient's groups from group j down, for the
\* remainder rem that the groups above j left
DivStep(a, m, j, rem) ==
    IF j = 0 THEN <<>>
    ELSE <<(rem * 10000 + Group(a, j)) \div m>>
             \o DivStep(a, m, j - 1, (rem * 10000 + Group(a, j)) % m)

\* a / k (integer quotient) for a machine-size divisor k whose mantissa is
\* below 200000: a / 10^z / m
Div(a, k) ==
    IF IsZero(a) THEN Zero
    ELSE FromGroups(DivStep(ShiftRight(a, TrailingZeros(k)), Mantissa(k),
                            Groups(ShiftRight(a, TrailingZeros(k))), 0))

RECURSIVE RemStep(_, _, _)
\* what the groups of a from group j up leave when divided by m
RemStep(a, m, j) ==
    IF j > Groups(a) THEN 0 ELSE ((RemStep(a, m, j + 1) * 10000) + Group(a, j)) % m

\* a % k, a machine-size number, for k of at most eight trailing zeros:
\* (a / 10^z % m) * 10^z + a % 10^z
Rem(a, k) ==
    RemStep(ShiftRight(a, TrailingZeros(k)), Mantissa(k), 1) * (10 ^ TrailingZeros(k))
        + ((Group(a, 1) + 10000 * Group(a, 2)) % (10 ^ TrailingZeros(k)))

RECURSIVE LexLe(_, _, _)
\* a <= b for numbers of one length, by their groups from group j down
LexLe(a, b, j) ==
    IF j = 0 THEN TRUE
    ELSE IF Group(a, j) # Group(b, j) THEN Group(a, j) < Group(b, j)
    ELSE LexLe(a, b, j - 1)

\* a <= b
Le(a, b) == \/ Len(a) < Len(b)
            \/ Len(a) = Len(b) /\ LexLe(a, b, Groups(a))

Lt(a, b) == Le(a, b) /\ a # b


(***************************************************************************)
(* u64.                                                                    *)
(***************************************************************************)
U64_MAX == <<1, 8, 4, 4, 6, 7, 4, 4, 0, 7, 3, 7, 0, 9, 5, 5, 1, 6, 1, 5>>

Fits64(x) == Le(x, U64_MAX)

Word16 == 256 * 256

\* F of the value of x: x is computed first, then F of it
With(x, F(_)) == CHOOSE r \in {F(v) : v \in {x}} : TRUE

RECURSIVE LowWords(_, _)
\* the value of the n low base-65536 digits of x
LowWords(x, n) ==
    IF n = 0 THEN Zero
    ELSE With(Div(x, Word16),
              LAMBDA q : With(LowWords(q, n - 1),
                              LAMBDA hi : Add(Mul(hi, Word16), Nat10(Rem(x, Word16)))))

\* x mod 2^64: the four low base-65536 digits of x
Wrap64(x) == LowWords(x, 4)

\* The result of a u64 operation whose exact value is x.  With overflow
\* checks (the debug profile) an overflow panics; without them (the release
\* profile) the value wraps.
u64_result(x, overflow_checks) ==
    IF Fits64(x) THEN [panic |-> FALSE, v |-> x]
    ELSE IF overflow_checks THEN [panic |-> TRUE, v |-> Zero]
    ELSE [panic |-> FALSE, v |-> Wrap64(x)]

(***************************************************************************)
(* Characters.                                                             *)
(***************************************************************************)
DigitChars == <<"0", "1", "2", "3", "4", "5", "6", "7", "8", "9">>

IsDigit(c) == c \in {DigitChars[i] : i \in 1..10}

DigitValue(c) == CHOOSE d \in 0..9 : DigitChars[d + 1] = c

Letters == {"a", "b", "c", "d", "e", "f", "g", "h", "i", "j", "k", "l", "m",
            "n", "o", "p", "q", "r", "s", "t", "u", "v", "w", "x", "y", "z",
            "A", "B", "C", "D", "E", "F", "G", "H", "I", "J", "K", "L", "M",
            "N", "O", "P", "Q", "R", "S", "T", "U", "V", "W", "X", "Y", "Z"}

IsLetter(c) == c \in Letters

IsSpace(c) == c \in {" ", "\t", "\n", "\r"}

\* format!("{}", n) for a u64 n: its decimal digits
to_string(n) == [i \in 1..Len(n) |-> DigitChars[n[i] + 1]]

\* value.parse::<u64>() for a run of ASCII digits: leading zeros are
\* accepted, a value above u64::MAX is an error
parse_u64(value) ==
    LET n == Strip([i \in 1..Len(value) |-> DigitValue(value[i])])
    IN  IF Fits64(n) THEN [err |-> FALSE, v |-> n] ELSE [err |-> TRUE, v |-> Zero]

(***************************************************************************)
(* The token pattern FANCY_FORMAT: ([0-9]+)([a-zA-Z]{1,2})\s*              *)
(***************************************************************************)
RECURSIVE SkipDigits(_, _)
\* the first index at or after i whose character is not a digit
SkipDigits(s, i) ==
    IF i <= Len(s) /\ IsDigit(s[i]) THEN SkipDigits(s, i + 1) ELSE i

RECURSIVE SkipSpaces(_, _)
\* the first index at or after i whose character is not whitespace
SkipSpaces(s, i) ==
    IF i <= Len(s) /\ IsSpace(s[i]) THEN SkipSpaces(s, i + 1) ELSE i

\* The match of the pattern that starts exactly at index i, if there is one:
\* a longest run of digits, one or two letters (two when there are two), and
\* the whitespace after them.  A run of digits that no letter follows does
\* not match: giving digits back leaves a digit where a letter is needed.
FANCY_FORMAT(s, i) ==
    LET j == SkipDigits(s, i)
        k == IF j + 1 <= Len(s) /\ IsLetter(s[j + 1]) THEN j + 2 ELSE j + 1
    IN  IF i <= Len(s) /\ j > i /\ j <= Len(s) /\ IsLetter(s[j])
        THEN [matched |-> TRUE, value |-> SubSeq(s, i, j - 1),
              suffix |-> SubSeq(s, j, k - 1), end |-> SkipSpaces(s, k)]
        ELSE [matched |-> FALSE, value |-> <<>>, suffix |-> <<>>, end |-> i]

RECURSIVE captures_from(_, _, _)
captures_from(s, i, list) ==
    IF i > Len(s) THEN list
    ELSE LET item == FANCY_FORMAT(s, i)
         IN  IF item.matched
             THEN captures_from(s, item.end,
                                Append(list, [value |-> item.value, suffix |-> item.suffix]))
             ELSE captures_from(s, i + 1, list)

\* FANCY_FORMAT.captures_iter(s), pushed on list: the non-overlapping matches,
\* leftmost first, as (value, suffix) pairs
captures_iter(s) == captures_from(s, 1, <<>>)

(***************************************************************************)
(* The unit table.                                                         *)
(***************************************************************************)
MINUTE == 60

HOUR == 60 * MINUTE

DAY == 24 * HOUR

WEEK == 7 * DAY

MONTH == 30 * DAY

YEAR == 365 * DAY

MILLI == 1000000

MICRO == 1000

(***************************************************************************)
(* FancyDuration::parse_to_ns.                                             *)
(*                                                                         *)
(* The locals of the scan: seconds, subseconds, past_minutes, and how the  *)
(* scan has ended so far (exit: "none" while it runs, "err" after a `?`    *)
(* returned the number error, "panic" after an overflow panicked).         *)
(***************************************************************************)
ScanStart == [seconds |-> Zero, subseconds |-> Zero, past_minutes |-> FALSE,
              exit |-> "none"]

\* the scan after `subseconds += x` or `seconds += x`, whose u64 sum came out as t
set_subseconds(acc, t) ==
    IF t.panic THEN [acc EXCEPT !.exit = "panic"] ELSE [acc EXCEPT !.subseconds = t.v]

set_seconds(acc, t) ==
    IF t.panic THEN [acc EXCEPT !.exit = "panic"] ELSE [acc EXCEPT !.seconds = t.v]

\* a + p for the u64 a and the u64 product p: a product that panicked panics
\* the sum
u64_add(a, p, oc) ==
    IF p.panic THEN p ELSE u64_result(Add(a, p.v), oc)

\* subseconds += result * k
add_subseconds(acc, result, k, oc) ==
    set_subseconds(acc, u64_add(acc.subseconds, u64_result(Mul(result, k), oc), oc))

\* seconds += result * k
add_seconds(acc, result, k, oc) ==
    set_seconds(acc, u64_add(acc.seconds, u64_result(Mul(result, k), oc), oc))

arm_ns(acc, result, oc) == add_subseconds(acc, result, 1, oc)

arm_ms(acc, result, oc) == add_subseconds(acc, result, MILLI, oc)

arm_us(acc, result, oc) == add_subseconds(acc, result, MICRO, oc)

arm_s(acc, result, oc) == add_seconds(acc, result, 1, oc)

\* arm_m without the test of past_minutes: every `m` counts as minutes
arm_m_always_minutes(acc, result, oc) ==
    add_seconds([acc EXCEPT !.past_minutes = TRUE], result, 60, oc)

\* arm_m flipping past_minutes instead of setting it
arm_m_toggles(acc, result, oc) ==
    IF acc.past_minutes
    THEN add_seconds([acc EXCEPT !.past_minutes = FALSE], result, 60 * 60 * 24 * 30, oc)
    ELSE add_seconds([acc EXCEPT !.past_minutes = TRUE], result, 60, oc)

arm_m(acc, result, oc) ==
    IF acc.past_minutes
    THEN add_seconds(acc, result, 60 * 60 * 24 * 30, oc)
    ELSE add_seconds([acc EXCEPT !.past_minutes = TRUE], result, 60, oc)

arm_h(acc, result, oc) ==
    add_seconds([acc EXCEPT !.past_minutes = TRUE], result, 60 * 60, oc)

arm_d(acc, result, oc) ==
    add_seconds([acc EXCEPT !.past_minutes = TRUE], result, 60 * 60 * 24, oc)

arm_w(acc, result, oc) ==
    add_seconds([acc EXCEPT !.past_minutes = TRUE], result, 60 * 60 * 24 * 7, oc)

\* arm_y with the year of the unit table
arm_y_365(acc, result, oc) ==
    add_seconds([acc EXCEPT !.past_minutes = TRUE], result, 365 * 24 * 60 * 60, oc)

arm_y(acc, result, oc) ==
    add_seconds([acc EXCEPT !.past_minutes = TRUE], result, 12 * 30 * 60 * 60 * 24, oc)

Recognised == {<<"n", "s">>, <<"m", "s">>, <<"u", "s">>, <<"s">>, <<"m">>,
               <<"h">>, <<"d">>, <<"w">>, <<"y">>}

\* the arm of `match *suffix` that a recognised suffix selects, on the parsed
\* count
match_arm(acc, suffix, result, oc) ==
    CASE suffix = <<"n", "s">> -> arm_ns(acc, result, oc)
      [] suffix = <<"m", "s">> -> arm_ms(acc, result, oc)
      [] suffix = <<"u", "s">> -> arm_us(acc, result, oc)
      [] suffix = <<"s">> -> arm_s(acc, result, oc)
      [] suffix = <<"m">> -> arm_m(acc, result, oc)
      [] suffix = <<"h">> -> arm_h(acc, result, oc)
      [] suffix = <<"d">> -> arm_d(acc, result, oc)
      [] suffix = <<"w">> -> arm_w(acc, result, oc)
      [] suffix = <<"y">> -> arm_y(acc, result, oc)

\* `let result: u64 = value.parse()?;` and the rest of the arm
parsed_arm(acc, suffix, parsed, oc) ==
    IF parsed.err THEN [acc EXCEPT !.exit = "err"]
    ELSE match_arm(acc, suffix, parsed.v, oc)

\* the loop with `value.parse()?` ahead of the match, for every suffix
match_suffix_parses_first(acc, value, suffix, oc) ==
    IF parse_u64(value).err THEN [acc EXCEPT !.exit = "err"]
    ELSE IF suffix \notin Recognised THEN acc
    ELSE match_arm(acc, suffix, parse_u64(value).v, oc)

\* one turn of the loop: an unrecognised suffix falls to `_ => {}`, which
\* does not parse the count
match_suffix(acc, value, suffix, oc) ==
    IF suffix \notin Recognised THEN acc
    ELSE parsed_arm(acc, suffix, parse_u64(value), oc)

RECURSIVE scan_rev(_, _, _, _)
\* for (value, suffix) in list.iter().rev(): tokens i, i-1, .., 1
scan_rev(list, i, acc, oc) ==
    IF i = 0 \/ acc.exit # "none" THEN acc
    ELSE scan_rev(list, i - 1, match_suffix(acc, list[i].value, list[i].suffix, oc), oc)

\* what parse_to_ns returns when the scan ended as acc: exit "ok" with
\* (s, ns) for Ok((seconds, subseconds)), exit "err" for Err, exit "panic"
\* for an arithmetic overflow panic
scan_result(acc) ==
    IF acc.exit = "none"
    THEN [exit |-> "ok", s |-> acc.seconds, ns |-> acc.subseconds]
    ELSE [exit |-> acc.exit, s |-> Zero, ns |-> Zero]

\* the scan of the collected list
scan_list(list, oc) == scan_result(scan_rev(list, Len(list), ScanStart, oc))

\* parse_to_ns(s), built with overflow checks (oc) or without: the list is
\* collected before the loop scans it
parse_to_ns(s, oc) == With(captures_iter(s), LAMBDA pairs : scan_list(pairs, oc))

(***************************************************************************)
(* DurationPart and DurationBreakdown.  A breakdown is a record of ten     *)
(* u64 fields; Parts lists them in the order of the struct, which is the   *)
(* order truncate, filter and format_internal visit them in.               *)
(***************************************************************************)
Parts == <<"years", "months", "weeks", "days", "hours", "minutes", "seconds",
           "milliseconds", "microseconds", "nanoseconds">>

DurationPart == {Parts[i] : i \in 1..Len(Parts)}

\* take without the subtraction
take_keeps_rest(s, unit) == [count |-> Div(s, unit), rest |-> s]

\* let count = s / unit; s -= count * unit;
take(s, unit) ==
    LET count == Div(s, unit)
    IN  [count |-> count, rest |-> Sub(s, Mul(count, unit))]

\* DurationBreakdown::new without the seconds that the minutes leave
DurationBreakdown_new_drops_seconds(s, ns) ==
    LET y  == take(s, YEAR)
        mo == take(y.rest, MONTH)
        w  == take(mo.rest, WEEK)
        d  == take(w.rest, DAY)
        h  == take(d.rest, HOUR)
        mi == take(h.rest, MINUTE)
        ms == take(ns, MILLI)
        us == take(ms.rest, MICRO)
    IN  [years |-> y.count, months |-> mo.count, weeks |-> w.count,
         days |-> d.count, hours |-> h.count, minutes |-> mi.count,
         seconds |-> Zero, milliseconds |-> ms.count,
         microseconds |-> us.count, nanoseconds |-> us.rest]

\* DurationBreakdown::new with the whole of ns left in nanoseconds
DurationBreakdown_new_keeps_nanoseconds(s, ns) ==
    LET y  == take(s, YEAR)
        mo == take(y.rest, MONTH)
        w  == take(mo.rest, WEEK)
        d  == take(w.rest, DAY)
        h  == take(d.rest, HOUR)
        mi == take(h.rest, MINUTE)
        ms == take(ns, MILLI)
        us == take(ms.rest, MICRO)
    IN  [years |-> y.count, months |-> mo.count, weeks |-> w.count,
         days |-> d.count, hours |-> h.count, minutes |-> mi.count,
         seconds |-> mi.rest, milliseconds |-> ms.count,
         microseconds |-> us.count, nanoseconds |-> ns]

\* DurationBreakdown::new with the weeks taken before the months
DurationBreakdown_new_weeks_first(s, ns) ==
    LET y  == take(s, YEAR)
        w  == take(y.rest, WEEK)
        mo == take(w.rest, MONTH)
        d  == take(mo.rest, DAY)
        h  == take(d.rest, HOUR)
        mi == take(h.rest, MINUTE)
        ms == take(ns, MILLI)
        us == take(ms.rest, MICRO)
    IN  [years |-> y.count, months |-> mo.count, weeks |-> w.count,
         days |-> d.count, hours |-> h.count, minutes |-> mi.count,
         seconds |-> mi.rest, milliseconds |-> ms.count,
         microseconds |-> us.count, nanoseconds |-> us.rest]

DurationBreakdown_new(s, ns) ==
    LET y  == take(s, YEAR)
        mo == take(y.rest, MONTH)
        w  == take(mo.rest, WEEK)
        d  == take(w.rest, DAY)
        h  == take(d.rest, HOUR)
        mi == take(h.rest, MINUTE)
        ms == take(ns, MILLI)
        us == take(ms.rest, MICRO)
    IN  [years |-> y.count, months |-> mo.count, weeks |-> w.count,
         days |-> d.count, hours |-> h.count, minutes |-> mi.count,
         seconds |-> mi.rest, milliseconds |-> ms.count,
         microseconds |-> us.count, nanoseconds |-> us.rest]

\* truncate's loop with the budget taken by nonzero fields only
truncate_field_skips_zero(st, i) ==
    LET val == st.obj[Parts[i]]
    IN  IF st.limit_started \/ ~IsZero(val)
        THEN [obj |-> IF st.limit = 0 THEN [st.obj EXCEPT ![Parts[i]] = Zero]
                      ELSE st.obj,
              limit |-> IF st.limit # 0 /\ ~IsZero(val) THEN st.limit - 1 ELSE st.limit,
              limit_started |-> TRUE]
        ELSE st

\* truncate's loop zeroing already when one unit of budget is left
truncate_field_early(st, i) ==
    LET val == st.obj[Parts[i]]
    IN  IF st.limit_started \/ ~IsZero(val)
        THEN [obj |-> IF st.limit <= 1 THEN [st.obj EXCEPT ![Parts[i]] = Zero]
                      ELSE st.obj,
              limit |-> IF st.limit # 0 THEN st.limit - 1 ELSE st.limit,
              limit_started |-> TRUE]
        ELSE st

\* truncate's loop with `limit -= 1` unguarded: at 0 the usize wraps to a
\* budget no breakdown uses up
truncate_field_unguarded(st, i) ==
    LET val == st.obj[Parts[i]]
    IN  IF st.limit_started \/ ~IsZero(val)
        THEN [obj |-> IF st.limit = 0 THEN [st.obj EXCEPT ![Parts[i]] = Zero]
                      ELSE st.obj,
              limit |-> IF st.limit # 0 THEN st.limit - 1 ELSE Word16 * 256,
              limit_started |-> TRUE]
        ELSE st

\* one turn of truncate's loop, on the field Parts[i]
truncate_field(st, i) ==
    LET val == st.obj[Parts[i]]
    IN  IF st.limit_started \/ ~IsZero(val)
        THEN [obj |-> IF st.limit = 0 THEN [st.obj EXCEPT ![Parts[i]] = Zero]
                      ELSE st.obj,
              limit |-> IF st.limit # 0 THEN st.limit - 1 ELSE st.limit,
              limit_started |-> TRUE]
        ELSE st

RECURSIVE truncate_from(_, _)
truncate_from(st, i) ==
    IF i > Len(Parts) THEN st.obj ELSE truncate_from(truncate_field(st, i), i + 1)

DurationBreakdown_truncate(self, limit) ==
    truncate_from([obj |-> self, limit |-> limit, limit_started |-> FALSE], 1)

\* filter with the test of membership negated
DurationBreakdown_filter_inverted(self, filter) ==
    [part \in DurationPart |-> IF part \in filter THEN Zero ELSE self[part]]

\* filter is the slice's set of elements: the loop only asks filter.contains(part)
DurationBreakdown_filter(self, filter) ==
    [part \in DurationPart |-> IF part \notin filter THEN Zero ELSE self[part]]

\* as_times with a month of four weeks
DurationBreakdown_as_times_month_28(self) ==
    [s  |-> Add(Add(Add(Add(Add(Add(Mul(self.years, YEAR),
                Mul(self.months, 4 * WEEK)), Mul(self.weeks, WEEK)),
                Mul(self.days, DAY)), Mul(self.hours, HOUR)),
                Mul(self.minutes, MINUTE)), self.seconds),
     ns |-> Add(Add(Mul(self.milliseconds, MILLI), Mul(self.microseconds, MICRO)),
                self.nanoseconds)]

\* as_times with the year of the parser: twelve months
DurationBreakdown_as_times_360(self) ==
    [s  |-> Add(Add(Add(Add(Add(Add(Mul(self.years, 12 * MONTH),
                Mul(self.months, MONTH)), Mul(self.weeks, WEEK)),
                Mul(self.days, DAY)), Mul(self.hours, HOUR)),
                Mul(self.minutes, MINUTE)), self.seconds),
     ns |-> Add(Add(Mul(self.milliseconds, MILLI), Mul(self.microseconds, MICRO)),
                self.nanoseconds)]

\* the exact sums; u64 arithmetic gives them whenever they fit 64 bits
DurationBreakdown_as_times(self) ==
    [s  |-> Add(Add(Add(Add(Add(Add(Mul(self.years, YEAR),
                Mul(self.months, MONTH)), Mul(self.weeks, WEEK)),
                Mul(self.days, DAY)), Mul(self.hours, HOUR)),
                Mul(self.minutes, MINUTE)), self.seconds),
     ns |-> Add(Add(Mul(self.milliseconds, MILLI), Mul(self.microseconds, MICRO)),
                self.nanoseconds)]

(***************************************************************************)
(* std::time::Duration and its AsTimes implementation.                     *)
(***************************************************************************)
U32_MAX == <<4, 2, 9, 4, 9, 6, 7, 2, 9, 5>>

NANOS_PER_SEC == 1000000000

\* a / 10^9 and a % 10^9 (the divisor is too large for DivStep's machine
\* arithmetic; in decimal they are the digits before the last nine and the
\* last nine)
DivNanos(a) == IF Len(a) <= 9 THEN Zero ELSE SubSeq(a, 1, Len(a) - 9)

RemNanos(a) == IF Len(a) <= 9 THEN a ELSE Strip(SubSeq(a, Len(a) - 8, Len(a)))

\* Duration::new(secs, nanos): whole seconds in nanos carry into secs, and the
\* carry panics when secs overflows
Duration_carried(total, nanos) ==
    IF Fits64(total)
    THEN [exit |-> "ok", secs |-> total, nanos |-> RemNanos(nanos)]
    ELSE [exit |-> "panic", secs |-> Zero, nanos |-> Zero]

Duration_new(secs, nanos) == Duration_carried(Add(secs, DivNanos(nanos)), nanos)

as_times(self) == [s |-> self.secs, ns |-> self.nanos]

\* Duration::new(s, ns.try_into().unwrap())
from_times(s, ns) ==
    IF Le(ns, U32_MAX) THEN Duration_new(s, ns)
    ELSE [exit |-> "panic", secs |-> Zero, nanos |-> Zero]

\* Ok(Duration::new(ns.0, ns.1.try_into()?)) for the pair ns that
\* parse_to_ns returned
duration_of(ns) ==
    IF ns.exit # "ok" THEN [exit |-> ns.exit, secs |-> Zero, nanos |-> Zero]
    ELSE IF ~Le(ns.ns, U32_MAX) THEN [exit |-> "err", secs |-> Zero, nanos |-> Zero]
    ELSE Duration_new(ns.s, ns.ns)

\* let ns = Self::parse_to_ns(s)?; and the conversion of ns
parse_to_duration(s, oc) == With(parse_to_ns(s, oc), LAMBDA ns : duration_of(ns))

(***************************************************************************)
(* FancyDuration<Duration>.                                                *)
(***************************************************************************)
\* self.0.from_times(times.0, times.1) for the pair times
from_pair(times) == from_times(times.s, times.ns)

\* DurationBreakdown::new(times.0, times.1) for the pair times
breakdown_of(times) == DurationBreakdown_new(times.s, times.ns)

\* let filtered = DurationBreakdown::new(times.0, times.1).filter(filter)
\* .as_times(); self.0.from_times(filtered.0, filtered.1): each step on the
\* value of the step before
FancyDuration_filter(self, filter) ==
    With(breakdown_of(as_times(self)),
         LAMBDA new : With(DurationBreakdown_filter(new, filter),
         LAMBDA kept : With(DurationBreakdown_as_times(kept),
         LAMBDA filtered : from_pair(filtered))))

\* let truncated = DurationBreakdown::new(times.0, times.1).truncate(limit)
\* .as_times(); self.0.from_times(truncated.0, truncated.1)
FancyDuration_truncate(self, limit) ==
    With(breakdown_of(as_times(self)),
         LAMBDA new : With(DurationBreakdown_truncate(new, limit),
         LAMBDA kept : With(DurationBreakdown_as_times(kept),
         LAMBDA truncated : from_pair(truncated))))

FancyDuration_parse(s, oc) == parse_to_duration(s, oc)

\* the timespec that format_internal writes after each field's count
Timespec == [years |-> <<"y">>, months |-> <<"m">>, weeks |-> <<"w">>,
             days |-> <<"d">>, hours |-> <<"h">>, minutes |-> <<"m">>,
             seconds |-> <<"s">>, milliseconds |-> <<"m", "s">>,
             microseconds |-> <<"u", "s">>, nanoseconds |-> <<"n", "s">>]

RECURSIVE push_fields(_, _, _, _)
\* the ten `if breakdown.<field> > 0 { s += &format!("{}<spec>{}", .., spad) }`
push_fields(breakdown, spad, i, s) ==
    IF i > Len(Parts) THEN s
    ELSE LET val == breakdown[Parts[i]]
         IN  push_fields(breakdown, spad, i + 1,
                         IF ~IsZero(val)
                         THEN s \o to_string(val) \o Timespec[Parts[i]] \o spad
                         ELSE s)

\* format_internal without the s.truncate
drop_last_keeps(s) == s

\* s.truncate(s.len() - 1): on an empty s the subtraction underflows, which
\* panics with overflow checks and leaves s as it is without them
drop_last(s) == IF Len(s) = 0 THEN s ELSE SubSeq(s, 1, Len(s) - 1)

\* the separator written after each token
spad(pad) == IF pad THEN <<" ">> ELSE <<>>

\* format_internal without its zero test
format_times_no_zero_test(times, pad) ==
    IF pad THEN drop_last(push_fields(breakdown_of(times), spad(pad), 1, <<>>))
    ELSE push_fields(breakdown_of(times), spad(pad), 1, <<>>)

\* format_internal after its zero test, on the pair times
format_times(times, pad) ==
    IF IsZero(times.s) /\ IsZero(times.ns) THEN <<"0">>
    ELSE IF pad THEN drop_last(push_fields(breakdown_of(times), spad(pad), 1, <<>>))
    ELSE push_fields(breakdown_of(times), spad(pad), 1, <<>>)

format_internal(self, pad) == format_times(as_times(self), pad)

format(self) == format_internal(self, TRUE)

format_compact(self) == format_internal(self, FALSE)

(***************************************************************************)
(* Bounds and inputs.                                                      *)
(***************************************************************************)
\* the largest count of one unit in a sampled duration
MaxCount == 1

\* the largest number of tokens in a sampled text
MaxTokens == 2

\* the largest number of parts in a sampled filter (the full filter is
\* sampled as well)
MaxFilter == 1

\* the largest sampled truncate limit; a breakdown has ten fields
MaxLimit == 11

Dur(secs, nanos) == [secs |-> secs, nanos |-> nanos]

ZeroDuration == Dur(Zero, Zero)

\* the length of count units of a part, as a (seconds, nanoseconds) pair of
\* machine-size numbers
UnitSeconds == [years |-> YEAR, months |-> MONTH, weeks |-> WEEK, days |-> DAY,
                hours |-> HOUR, minutes |-> MINUTE, seconds |-> 1,
                milliseconds |-> 0, microseconds |-> 0, nanoseconds |-> 0]

UnitNanos == [years |-> 0, months |-> 0, weeks |-> 0, days |-> 0, hours |-> 0,
              minutes |-> 0, seconds |-> 0, milliseconds |-> MILLI,
              microseconds |-> MICRO, nanoseconds |-> 1]

\* durations of at most two units, each taken 1..MaxCount times
SampledDurations ==
    {Dur(Nat10(c1 * UnitSeconds[Parts[i]] + c2 * UnitSeconds[Parts[j]]),
         Nat10(c1 * UnitNanos[Parts[i]] + c2 * UnitNanos[Parts[j]])) :
        <<i, j, c1, c2>> \in {q \in (1..Len(Parts)) \X (1..Len(Parts))
                                      \X (1..MaxCount) \X (0..MaxCount) :
                                q[1] < q[2] \/ (q[4] = 0 /\ q[2] = 1)}}

\* durations at the edges of the breakdown's fields and of the type, and the
\* durations of the crate's tests
EdgeDurations ==
    {ZeroDuration,
     Dur(Nat10(YEAR - 1), Nat10(NANOS_PER_SEC - 1)),
     Dur(Nat10(MONTH - 1), Zero),
     Dur(Nat10(11 * MONTH + 4 * WEEK + DAY), Zero),
     Dur(Nat10(2 * YEAR + 3 * HOUR), Nat10(5 * MICRO)),
     Dur(Nat10(40263010), Zero),
     Dur(Nat10(9159010), Zero),
     Dur(Nat10(99 * DAY + 324), Zero),
     Dur(Nat10(185), Zero),
     Dur(Nat10(HOUR + MINUTE), Nat10(30 * MICRO)),
     Dur(Nat10(MINUTE + 5), Nat10(10 * MILLI)),
     Dur(Nat10(DAY + HOUR), Nat10(30)),
     Dur(U64_MAX, Nat10(NANOS_PER_SEC - 1))}

Durations == SampledDurations \cup EdgeDurations

\* the count of every sampled token; other counts are in EdgeTexts and
\* ListedTexts
TokenCounts == {<<"1", "2">>}

TokenSuffixes == Recognised \cup {<<"x">>}

Tokens == {c \o x : c \in TokenCounts, x \in TokenSuffixes}

RECURSIVE Join(_, _)
\* the tokens of a sequence, with sep between neighbours
Join(tokens, sep) ==
    IF tokens = <<>> THEN <<>>
    ELSE IF Len(tokens) = 1 THEN tokens[1]
    ELSE tokens[1] \o sep \o Join(Tail(tokens), sep)

TokenTexts ==
    UNION {{Join(ts, sep) : ts \in [1..n -> Tokens], sep \in {<<>>, <<" ">>}} :
           n \in 0..MaxTokens}

\* the texts of the crate's documentation and tests, and texts with counts
\* at the edge of u64, leading zeros and characters outside any token
EdgeTexts ==
    {<<"0">>,
     <<"5", "y", "2", "d", "3", "0", "m">>,
     <<"5", "y", "3", "0", "m", "2", "d">>,
     <<"1", "y", " ", "3", "m", " ", "2", "w", " ", "2", "d", " ", "1", "0", "m", " ", "1", "0", "s">>,
     <<"3", "m", " ", "2", "w", " ", "2", "d", " ", "1", "0", "m", " ", "1", "0", "s">>,
     <<"1", "d", "2", "m", "3", "s">>,
     <<"1", "h", " ", "1", "m", " ", "3", "0", "u", "s">>,
     <<"1", "8", "4", "4", "6", "7", "4", "4", "0", "7", "3", "7", "0", "9", "5", "5", "1", "6", "1", "5", "y">>,
     <<"1", "8", "4", "4", "6", "7", "4", "4", "0", "7", "3", "7", "0", "9", "5", "5", "1", "6", "1", "6", "s">>,
     <<"1", "8", "4", "4", "6", "7", "4", "4", "0", "7", "3", "7", "0", "9", "5", "5", "1", "6", "1", "6", "x">>,
     <<"1", "0", "0", "0", "m", "s">>,
     <<"5", "0", "0", "0", "m", "s">>,
     <<"1", "8", "4", "4", "6", "7", "4", "4", "0", "7", "3", "7", "0", "9", "5", "5", "1", "6", "1", "5", "s", " ", "1", "0", "0", "0", "m", "s">>,
     <<"1", "8", "4", "4", "6", "7", "4", "4", "0", "7", "3", "7", "0", "9", "5", "5", "1", "6", "1", "6", "s", " ",
       "1", "8", "4", "4", "6", "7", "4", "4", "0", "7", "3", "7", "0", "9", "5", "5", "1", "6", "1", "5", "y">>,
     <<"4", "n", "s", " ", "1", "8", "4", "4", "6", "7", "4", "4", "0", "7", "3", "7", "0", "9", "5", "5", "1", "6", "1", "5", "s", " ", "1", "s">>,
     <<"1", "2", " ", "7", "M", "3", "n", "s", "s">>,
     <<"0", "0", "7", "s", " ", "1", "m", "s", "s">>}

\* the <count><timespec> tokens of the nonzero fields of a breakdown whose
\* parts are in S, in the order of Parts
ListedTokens(b, S) ==
    SelectSeq([i \in 1..Len(Parts) |->
                   IF IsZero(b[Parts[i]]) \/ Parts[i] \notin S THEN <<>>
                   ELSE to_string(b[Parts[i]]) \o Timespec[Parts[i]]],
              LAMBDA tok : tok # <<>>)

\* the text that lists the nonzero fields of a breakdown in the order of
\* Parts, as <count><timespec> separated by single spaces
ListedText(b) == Join(ListedTokens(b, DurationPart), <<" ">>)

\* the listed texts of the breakdowns that DurationBreakdown::new produces
ListedTexts ==
    {ListedText(breakdown_of(as_times(x))) : x \in Durations \ {ZeroDuration}}

Texts == TokenTexts \cup EdgeTexts \cup ListedTexts

\* the filters of tests::test_parse_filter
TestFilters ==
    {{"minutes", "milliseconds"}, {"minutes", "microseconds"}, {"days"},
     {"seconds", "minutes"}, {"hours", "minutes", "seconds"},
     {"months", "weeks", "days"}}

FilterSets ==
    {f \in SUBSET DurationPart : Cardinality(f) <= MaxFilter}
        \cup TestFilters \cup {DurationPart}

Limits == 0..MaxLimit

(***************************************************************************)
(* The caller.                                                             *)
(*   d         the Duration it wraps in a FancyDuration                    *)
(*   text      the string it parses                                        *)
(*   call      the last call it made, with its arguments                   *)
(*   ret       what the call returned: exit is "ok", "err" (Result::Err)   *)
(*             or "panic"; a duration is in secs and nanos, a String in    *)
(*             str                                                         *)
(*   breakdown the DurationBreakdown::new(times.0, times.1) that format,   *)
(*             filter and truncate build from the receiver                 *)
(*   obj       that breakdown after .filter(filter) or .truncate(limit)    *)
(*   list      the (value, suffix) pairs parse_to_ns collected             *)
(*   times     the pair parse_to_ns returned, or obj.as_times()            *)
(* Threads that call into the crate side by side.                          *)
(*   threads   for every thread, the frame of the call it is in or was     *)
(*             last in: its arguments, its locals and what it returned     *)
(*   lazy      the lazy_static cell of FANCY_FORMAT: "uninit" until the    *)
(*             first dereference builds the Regex, "ready" from then on    *)
(***************************************************************************)
VARIABLES d, text, call, ret, breakdown, obj, list, times, threads, lazy

vars == <<d, text, call, ret, breakdown, obj, list, times, threads, lazy>>

Call(op, pad, filter, limit) == [op |-> op, pad |-> pad, filter |-> filter, limit |-> limit]

NoReturn == [exit |-> "none", secs |-> Zero, nanos |-> Zero, str |-> <<>>]

Returned(r) == [exit |-> r.exit, secs |-> r.secs, nanos |-> r.nanos, str |-> <<>>]

ReturnedString(s) == [exit |-> "ok", secs |-> Zero, nanos |-> Zero, str |-> s]

ZeroBreakdown == [part \in DurationPart |-> Zero]

Pair(p) == [exit |-> "ok", s |-> p.s, ns |-> p.ns]

NoTimes == [exit |-> "none", s |-> Zero, ns |-> Zero]

\* the threads of ThreadSpec
Threads == {"a", "b"}

\* the frame of a call at its entry: pc is the step it is at, self the value
\* behind &self, and the locals are those of parse_to_ns (acc, list and the
\* index i of the loop) and of filter, truncate and format_internal (times)
Frame(pc, op, s, oc, pad, filter, limit, self) ==
    [pc |-> pc, op |-> op, text |-> s, oc |-> oc, pad |-> pad,
     filter |-> filter, limit |-> limit, self |-> self,
     acc |-> ScanStart, list |-> <<>>, i |-> 0, times |-> NoTimes,
     ret |-> NoReturn]

\* a thread that has made no call
NoFrame == Frame("idle", "none", <<>>, FALSE, FALSE, {}, 0, ZeroDuration)

Init ==
    /\ threads = [t \in Threads |-> NoFrame]
    /\ lazy = "uninit"
    /\ d = ZeroDuration
    /\ text = <<>>
    /\ call = Call("none", FALSE, {}, 0)
    /\ ret = NoReturn
    /\ breakdown = ZeroBreakdown
    /\ obj = ZeroBreakdown
    /\ list = <<>>
    /\ times = NoTimes

\* FancyDuration::new(x): the caller starts with a duration
New(x) ==
    /\ call.op = "none"
    /\ d' = x
    /\ text' = <<>>
    /\ call' = Call("new", FALSE, {}, 0)
    /\ ret' = NoReturn
    /\ breakdown' = ZeroBreakdown
    /\ obj' = ZeroBreakdown
    /\ list' = <<>>
    /\ times' = NoTimes
    /\ UNCHANGED <<threads, lazy>>

\* the caller starts with a string to parse
Input(t) ==
    /\ call.op = "none"
    /\ text' = t
    /\ d' = ZeroDuration
    /\ call' = Call("input", FALSE, {}, 0)
    /\ ret' = NoReturn
    /\ breakdown' = ZeroBreakdown
    /\ obj' = ZeroBreakdown
    /\ list' = <<>>
    /\ times' = NoTimes
    /\ UNCHANGED <<threads, lazy>>

\* FancyDuration(d).format() and .format_compact()
Format(pad) ==
    /\ call.op = "new"
    /\ call' = Call("format", pad, {}, 0)
    /\ ret' = ReturnedString(format_internal(d, pad))
    /\ breakdown' = breakdown_of(as_times(d))
    /\ obj' = ZeroBreakdown
    /\ list' = <<>>
    /\ times' = NoTimes
    /\ UNCHANGED <<d, text, threads, lazy>>

\* FancyDuration::<Duration>::parse(&text), built with overflow checks (oc)
\* or without
Parse(oc) ==
    /\ call.op = "input"
    /\ call' = Call("parse", FALSE, {}, 0)
    /\ list' = captures_iter(text)
    /\ times' = scan_list(list', oc)
    /\ ret' = Returned(duration_of(times'))
    /\ breakdown' = ZeroBreakdown
    /\ obj' = ZeroBreakdown
    /\ UNCHANGED <<d, text, threads, lazy>>

\* FancyDuration(d).filter(&filter)
Filter(filter) ==
    /\ call.op = "new"
    /\ call' = Call("filter", FALSE, filter, 0)
    /\ breakdown' = breakdown_of(as_times(d))
    /\ obj' = DurationBreakdown_filter(breakdown', filter)
    /\ times' = Pair(DurationBreakdown_as_times(obj'))
    /\ ret' = Returned(from_pair(times'))
    /\ list' = <<>>
    /\ UNCHANGED <<d, text, threads, lazy>>

\* FancyDuration(d).truncate(limit)
Truncate(limit) ==
    /\ call.op = "new"
    /\ call' = Call("truncate", FALSE, {}, limit)
    /\ breakdown' = breakdown_of(as_times(d))
    /\ obj' = DurationBreakdown_truncate(breakdown', limit)
    /\ times' = Pair(DurationBreakdown_as_times(obj'))
    /\ ret' = Returned(from_pair(times'))
    /\ list' = <<>>
    /\ UNCHANGED <<d, text, threads, lazy>>

Next ==
    \/ \E x \in Durations : New(x)
    \/ \E t \in Texts : Input(t)
    \/ \E pad \in BOOLEAN : Format(pad)
    \/ \E oc \in BOOLEAN : Parse(oc)
    \/ \E filter \in FilterSets : Filter(filter)
    \/ \E limit \in Limits : Truncate(limit)

Spec == Init /\ [][Next]_vars

(***************************************************************************)
(* What the claims speak of.                                               *)
(***************************************************************************)
Ok(secs, nanos) == [exit |-> "ok", secs |-> secs, nanos |-> nanos]

\* the returned duration, as the Duration it is
RetDuration == Dur(ret.secs, ret.nanos)

FormatDone == call.op = "format"

ParseDone == call.op = "parse"

FilterDone == call.op = "filter"

\* C1: for every duration d of whole seconds, parsing the padded text
\* format(d) returns exactly d, and so does parsing the compact text
\* format_compact(d) (the state after either call holds the text in ret.str)
C1_FormatThenParse ==
    (FormatDone /\ IsZero(d.nanos)) =>
        \A oc \in BOOLEAN : parse_to_duration(ret.str, oc) = Ok(d.secs, d.nanos)

\* C2: for every breakdown b that DurationBreakdown::new produces, the text
\* that lists b's nonzero fields in order, separated by single spaces, parses
\* to a duration that formats to the same text
C2_ParseThenFormat ==
    (ParseDone /\ text \in ListedTexts) =>
        /\ ret.exit = "ok"
        /\ format(RetDuration) = text

\* the collected list with the count of token i replaced by 0: the token
\* stays where it is and adds nothing
WithoutCount(l, i) == [l EXCEPT ![i].value = <<"0">>]

\* the count of token i
CountOf(l, i) == parse_u64(l[i].value).v

\* no count fails to parse and no sum or product leaves u64: the build with
\* overflow checks returns Ok, and the build without them returns the same
NoOverflow == scan_list(list, TRUE).exit = "ok"

\* what token i of the parsed list added to the seconds and to the
\* nanoseconds that parse_to_ns returned
SecondsOf(i) == Sub(times.s, scan_list(WithoutCount(list, i), TRUE).s)

NanosOf(i) == Sub(times.ns, scan_list(WithoutCount(list, i), TRUE).ns)

\* some token to the right of token i has suffix h, d, w, y or m
CoarserToRight(l, i) ==
    \E j \in (i + 1)..Len(l) :
        l[j].suffix \in {<<"h">>, <<"d">>, <<"w">>, <<"y">>, <<"m">>}

\* C3: an `m` token counts as months (count x 30 days) exactly when some
\* token with suffix h, d, w, y or m stands to its right in the text, and as
\* minutes (count x 60 s) otherwise; s, ms, us and ns tokens to its right
\* change nothing
C3_MinuteOrMonth ==
    (ParseDone /\ NoOverflow) =>
        \A i \in 1..Len(list) :
            list[i].suffix = <<"m">> =>
                /\ SecondsOf(i) = Mul(CountOf(list, i),
                                      IF CoarserToRight(list, i)
                                      THEN 30 * 86400 ELSE 60)
                /\ IsZero(NanosOf(i))

\* a parsed text with an `m` that counted as months and an `m` that counted
\* as minutes
C3_Witness ==
    /\ ParseDone /\ NoOverflow
    /\ \E i, j \in 1..Len(list) :
          /\ list[i].suffix = <<"m">> /\ CoarserToRight(list, i)
          /\ SecondsOf(i) = Mul(CountOf(list, i), 30 * 86400)
          /\ list[j].suffix = <<"m">> /\ ~CoarserToRight(list, j)
          /\ SecondsOf(j) = Mul(CountOf(list, j), 60)

\* C4: a `y` token of count n adds n x 365 x 86400 seconds when parsed and an
\* `m` token that counts as months adds n x 30 x 86400, the unit lengths
\* YEAR and MONTH of the decomposition
C4_YearIs365Days ==
    (ParseDone /\ NoOverflow) =>
        \A i \in 1..Len(list) :
            /\ list[i].suffix = <<"y">> =>
                   SecondsOf(i) = Mul(CountOf(list, i), YEAR)
            /\ (list[i].suffix = <<"m">> /\ CoarserToRight(list, i)) =>
                   SecondsOf(i) = Mul(CountOf(list, i), MONTH)

\* the table of the parser: the seconds and the nanoseconds of one unit of
\* token i
TableSeconds(l, i) ==
    CASE l[i].suffix = <<"s">> -> 1
      [] l[i].suffix = <<"m">> -> IF CoarserToRight(l, i) THEN 30 * 86400 ELSE 60
      [] l[i].suffix = <<"h">> -> 3600
      [] l[i].suffix = <<"d">> -> 86400
      [] l[i].suffix = <<"w">> -> 604800
      [] l[i].suffix = <<"y">> -> 360 * 86400
      [] OTHER -> 0

TableNanos(l, i) ==
    CASE l[i].suffix = <<"m", "s">> -> 1000000
      [] l[i].suffix = <<"u", "s">> -> 1000
      [] l[i].suffix = <<"n", "s">> -> 1
      [] OTHER -> 0

RECURSIVE SumSeconds(_, _)
\* the sum of count x unit over the tokens 1..i
SumSeconds(l, i) ==
    IF i = 0 THEN Zero
    ELSE With(SumSeconds(l, i - 1),
              LAMBDA sum : Add(sum, Mul(CountOf(l, i), TableSeconds(l, i))))

RECURSIVE SumNanos(_, _)
SumNanos(l, i) ==
    IF i = 0 THEN Zero
    ELSE With(SumNanos(l, i - 1),
              LAMBDA sum : Add(sum, Mul(CountOf(l, i), TableNanos(l, i))))

\* every token of the list is a recognised one with a count that is a u64
RecognisedTokens(l) ==
    \A i \in 1..Len(l) : l[i].suffix \in Recognised /\ ~parse_u64(l[i].value).err

Decomposed == call.op \in {"format", "filter", "truncate"}

\* C6: for every seconds value s and nanoseconds value ns < 1,000,000,000,
\* DurationBreakdown::new(s, ns) followed by as_times gives (s, ns) back
C6_DecompositionIsLossless ==
    Decomposed => DurationBreakdown_as_times(breakdown) = as_times(d)

\* a decomposed duration with years and with nanoseconds
C6_Witness ==
    /\ Decomposed
    /\ ~IsZero(breakdown.years) /\ ~IsZero(breakdown.nanoseconds)
    /\ DurationBreakdown_as_times(breakdown) = as_times(d)

\* the largest value of each field but years
MaxField == [months |-> 12, weeks |-> 4, days |-> 6, hours |-> 23,
             minutes |-> 59, seconds |-> 59, milliseconds |-> 999,
             microseconds |-> 999, nanoseconds |-> 999]

RECURSIVE SecondsBefore(_, _)
\* the seconds that the fields before field i of a breakdown stand for
SecondsBefore(b, i) ==
    IF i = 1 THEN Zero
    ELSE With(SecondsBefore(b, i - 1),
              LAMBDA sum : Add(sum, Mul(b[Parts[i - 1]], UnitSeconds[Parts[i - 1]])))

RECURSIVE NanosBefore(_, _)
NanosBefore(b, i) ==
    IF i = 1 THEN Zero
    ELSE With(NanosBefore(b, i - 1),
              LAMBDA sum : Add(sum, Mul(b[Parts[i - 1]], UnitNanos[Parts[i - 1]])))

\* field i is the integer quotient, by its unit, of what the more
\* significant fields leave of s (fields 1..7) or of ns (fields 8..10)
IsQuotient(b, s, ns, i) ==
    IF UnitSeconds[Parts[i]] # 0
    THEN \A before \in {SecondsBefore(b, i)} :
             b[Parts[i]] = Div(Sub(s, before), UnitSeconds[Parts[i]])
    ELSE \A before \in {NanosBefore(b, i)} :
             b[Parts[i]] = Div(Sub(ns, before), UnitNanos[Parts[i]])

C8_FormatLayout ==
    (FormatDone /\ d # ZeroDuration) =>
        /\ ret.exit = "ok"
        /\ ret.str = Join(ListedTokens(breakdown, DurationPart), spad(call.pad))
        /\ ret.str # <<>> /\ ret.str[1] # " " /\ ret.str[Len(ret.str)] # " "
        /\ ~call.pad => ret.str = SelectSeq(format(d), LAMBDA c : c # " ")

\* a padded text of three tokens or more
C8_Witness ==
    /\ FormatDone /\ call.pad
    /\ Len(ListedTokens(breakdown, DurationPart)) >= 3
    /\ Len(SelectSeq(ret.str, LAMBDA c : c = " ")) >= 2

\* C9: format and format_compact return "0" if and only if the duration is
\* (0 seconds, 0 nanoseconds), and parse("0") returns Ok with the pair (0, 0)
C9_ZeroIsCanonical ==
    /\ FormatDone => (ret.str = <<"0">> <=> d = ZeroDuration)
    /\ (ParseDone /\ text = <<"0">>) =>
           /\ times = [exit |-> "ok", s |-> Zero, ns |-> Zero]
           /\ ret = Returned(Ok(Zero, Zero))

\* the zero duration, formatted
C9_Witness == FormatDone /\ d = ZeroDuration /\ ret.str = <<"0">>

\* C10: filter(d, S) returns a duration whose breakdown has zero in every
\* field whose part is not in S and d's field in every field whose part is in
\* S; its format is the tokens of format(d) whose part is in S, or "0" when
\* none remain
C10_FilterKeepsMembers ==
    FilterDone =>
        /\ ret.exit = "ok"
        /\ \A part \in DurationPart :
               breakdown_of(as_times(RetDuration))[part]
                   = IF part \in call.filter THEN breakdown[part] ELSE Zero
        /\ format(RetDuration)
               = IF ListedTokens(breakdown, call.filter) = <<>> THEN <<"0">>
                 ELSE Join(ListedTokens(breakdown, call.filter), <<" ">>)

\* a filter that keeps a nonzero field and drops a nonzero field
C10_Witness ==
    /\ FilterDone
    /\ \E kept \in call.filter : ~IsZero(breakdown[kept])
    /\ \E dropped \in DurationPart \ call.filter : ~IsZero(breakdown[dropped])
    /\ ret.exit = "ok" /\ RetDuration # d /\ RetDuration # ZeroDuration

TruncateDone == call.op = "truncate"

\* C11: filter(filter(d, S), S) == filter(d, S) for every duration d and
\* every set S of parts, the empty set and the full set included; each call
\* decomposes, zeroes and recomposes
C11_FilterIsIdempotent ==
    FilterDone =>
        /\ ret.exit = "ok"
        /\ FancyDuration_filter(RetDuration, call.filter) = Ok(ret.secs, ret.nanos)

\* a filter that changed the duration and would change nothing more
C11_Witness ==
    /\ FilterDone /\ ret.exit = "ok"
    /\ RetDuration # d /\ RetDuration # ZeroDuration
    /\ ~IsZero(breakdown.years)
    /\ FancyDuration_filter(RetDuration, call.filter) = Ok(ret.secs, ret.nanos)

\* the index in Parts of the first nonzero field of a breakdown, or
\* Len(Parts) + 1 when every field is zero
RECURSIVE FirstNonzeroFrom(_, _)
FirstNonzeroFrom(b, i) ==
    IF i > Len(Parts) \/ ~IsZero(b[Parts[i]]) THEN i ELSE FirstNonzeroFrom(b, i + 1)

FirstNonzero(b) == FirstNonzeroFrom(b, 1)

\* b with the fields from index k on set to zero
KeepBefore(b, k) ==
    [part \in DurationPart |->
        IF \E i \in 1..Len(Parts) : Parts[i] = part /\ i < k THEN b[part] ELSE Zero]

\* C12: truncate(d, limit) keeps the `limit` consecutive fields that start at
\* the first nonzero field, zero fields among them taking budget too, and
\* zeroes every later field; so "1h 1m 30us" with limit 3 gives "1h 1m",
\* limit 0 gives the zero duration and the zero duration stays as it is
C12_TruncateWindow ==
    TruncateDone =>
        /\ obj = KeepBefore(breakdown, FirstNonzero(breakdown) + call.limit)
        /\ ret.exit = "ok"
        /\ breakdown_of(as_times(RetDuration)) = obj
        /\ call.limit = 0 => RetDuration = ZeroDuration
        /\ d = ZeroDuration => RetDuration = ZeroDuration
        /\ (d = Dur(Nat10(HOUR + MINUTE), Nat10(30 * MICRO)) /\ call.limit = 3) =>
               format(RetDuration) = <<"1", "h", " ", "1", "m">>

\* a window that holds a zero field and ends before a nonzero field
C12_Witness ==
    /\ TruncateDone /\ call.limit > 0
    /\ \E i, j \in 1..Len(Parts) :
          /\ FirstNonzero(breakdown) < i /\ i < FirstNonzero(breakdown) + call.limit
          /\ IsZero(breakdown[Parts[i]])
          /\ j >= FirstNonzero(breakdown) + call.limit
          /\ ~IsZero(breakdown[Parts[j]]) /\ IsZero(obj[Parts[j]])
    /\ RetDuration # ZeroDuration

\* the number of nonzero fields of a breakdown
NonzeroCount(b) == Cardinality({part \in DurationPart : ~IsZero(b[part])})

\* the number of fields from the first nonzero field to the last one, the zero
\* fields between them included
Span(b) ==
    Cardinality({i \in 1..Len(Parts) :
                    /\ \E j \in 1..i : ~IsZero(b[Parts[j]])
                    /\ \E j \in i..Len(Parts) : ~IsZero(b[Parts[j]])})

\* C13, as claimed: truncate(d, k) == d whenever k is at least the number of
\* nonzero fields of d's breakdown
C13_IdentityFromNonzeroCount ==
    (TruncateDone /\ call.limit >= NonzeroCount(breakdown)) =>
        ret = Returned(Ok(d.secs, d.nanos))

\* C13, amended: truncate(d, k) == d whenever k is at least the number of
\* fields from the first nonzero field of d's breakdown to its last nonzero
\* field, the zero fields between them included
C13_IdentityFromSpan ==
    (TruncateDone /\ call.limit >= Span(breakdown)) =>
        ret = Returned(Ok(d.secs, d.nanos))

\* a limit that is exactly the span of a breakdown with a zero field inside
C13_Witness ==
    /\ TruncateDone
    /\ call.limit = Span(breakdown)
    /\ Span(breakdown) > NonzeroCount(breakdown)
    /\ RetDuration = d

\* (s, ns) pairs in the order of durations
DurationLe(x, y) == Lt(x.secs, y.secs) \/ (x.secs = y.secs /\ Le(x.nanos, y.nanos))

\* b1 is b2 cut after some field: a field of b1 is b2's or zero, and after a
\* field that was cut every field is zero
IsPrefix(b1, b2) ==
    \E k \in 1..(Len(Parts) + 1) : b1 = KeepBefore(b2, k)

\* C14: for limits k1 <= k2 the breakdown of truncate(d, k1) is a prefix of the
\* breakdown of truncate(d, k2), truncate(truncate(d, k2), k1) ==
\* truncate(d, k1), and truncate(d, k1) <= truncate(d, k2) <= d (the state
\* holds truncate(d, k2) in ret)
C14_TruncateIsMonotone ==
    TruncateDone =>
        /\ ret.exit = "ok"
        /\ DurationLe(RetDuration, d)
        /\ \A k1 \in 0..call.limit :
              \A t1 \in {FancyDuration_truncate(d, k1)} :
                  /\ t1.exit = "ok"
                  /\ IsPrefix(breakdown_of(as_times(t1)),
                              breakdown_of(as_times(RetDuration)))
                  /\ FancyDuration_truncate(RetDuration, k1) = t1
                  /\ DurationLe(t1, RetDuration)

\* a truncation that dropped fields, with a smaller limit that drops more
C14_Witness ==
    /\ TruncateDone /\ ret.exit = "ok"
    /\ RetDuration # d
    /\ \E k1 \in 1..call.limit :
          /\ Dur(FancyDuration_truncate(d, k1).secs, FancyDuration_truncate(d, k1).nanos)
                 \notin {RetDuration, ZeroDuration}
          /\ FancyDuration_truncate(RetDuration, k1) = FancyDuration_truncate(d, k1)

\* some matched token of the list has a digit run that is not a u64
SomeBadCount(l) == \E i \in 1..Len(l) : parse_u64(l[i].value).err

\* C15: parse returns an error if and only if some matched token (a digit run
\* followed by one or two letters) has a digit run that does not parse as a
\* u64; an error carries no duration
C15_ErrorIffBadCount ==
    ParseDone =>
        /\ ret.exit = "err" <=> SomeBadCount(list)
        /\ ret.exit = "err" => (IsZero(ret.secs) /\ IsZero(ret.nanos))

\* C16: for every text whose token counts each fit in 64 bits, parse does not
\* panic, and what parse_to_ns returns when it is not an error is the exact
\* sum of the tokens' contributions: no product and no addition overflows
\* into a panic or a wrapped value
C16_NoPanicNoWrap ==
    (ParseDone /\ ~SomeBadCount(list)) =>
        /\ times.exit # "panic" /\ ret.exit # "panic"
        /\ times.exit = "ok" =>
               /\ times.s = SumSeconds(list, Len(list))
               /\ times.ns = SumNanos(list, Len(list))

\* the tokens of a list that carry a recognised suffix
RecognisedOnly(l) == SelectSeq(l, LAMBDA tok : tok.suffix \in Recognised)

\* the text of the tokens of a list alone, one space between them
TokenText(l) == Join([i \in 1..Len(l) |-> l[i].value \o l[i].suffix], <<" ">>)

\* C17: the result of parse depends only on the sequence of matched tokens
\* with a recognised suffix: characters outside any token and tokens with
\* another suffix add nothing and raise no error, and a text without such a
\* token, the empty string included, parses to the pair (0, 0)
C17_LenientParsing ==
    ParseDone =>
        /\ \A tokens \in {TokenText(RecognisedOnly(list))} :
               /\ \A oc \in BOOLEAN :
                      parse_to_duration(tokens, oc) = parse_to_duration(text, oc)
               /\ ret \in {Returned(parse_to_duration(tokens, oc)) : oc \in BOOLEAN}
        /\ RecognisedOnly(list) = <<>> =>
               /\ times = [exit |-> "ok", s |-> Zero, ns |-> Zero]
               /\ ret = Returned(Ok(Zero, Zero))

\* a text with characters outside any token, a token with another suffix and
\* a recognised token
C17_Witness ==
    /\ ParseDone
    /\ text = <<"1", "2", " ", "7", "M", "3", "n", "s", "s">>
    /\ Len(list) = 2 /\ Len(RecognisedOnly(list)) = 1
    /\ ret = Returned(Ok(Zero, <<3>>))

\* the rearrangements of n tokens that are tried: every permutation of up to
\* four tokens, and every exchange of two tokens of a longer list
Rearrangements(n) ==
    IF n <= 4
    THEN {p \in [1..n -> 1..n] : \A i, j \in 1..n : p[i] = p[j] => i = j}
    ELSE {[k \in 1..n |-> IF k = i THEN j ELSE IF k = j THEN i ELSE k] :
              i \in 1..n, j \in 1..n}

Rearranged(l, p) == [k \in 1..Len(l) |-> l[p[k]]]

\* C18: for every sequence of tokens none of which has suffix `m`, parse
\* returns the same for every permutation of the tokens
C18_OrderIndependentWithoutM ==
    (ParseDone /\ \A i \in 1..Len(list) : list[i].suffix # <<"m">>) =>
        \A p \in Rearrangements(Len(list)) : \A oc \in BOOLEAN :
            scan_list(Rearranged(list, p), oc) = scan_list(list, oc)

\* past_minutes after the scan has handled the k rightmost tokens
FlagAfter(l, k, oc) ==
    scan_rev(SubSeq(l, Len(l) - k + 1, Len(l)), k, ScanStart, oc).past_minutes

\* token i is an `m` with no h, d, w, y or m token to its right
IsMinutesToken(l, i) == l[i].suffix = <<"m">> /\ ~CoarserToRight(l, i)

\* C19: during one scan past_minutes starts false and, once true, stays true;
\* so at most one `m` token of a text counts as minutes (the rightmost `m`,
\* and only with no h, d, w or y token to its right) and every other `m`
\* token counts as months
C19_PastMinutesStaysSet ==
    ParseDone =>
        /\ \A oc \in BOOLEAN :
               /\ ~FlagAfter(list, 0, oc)
               /\ \A k \in 0..(Len(list) - 1) :
                      FlagAfter(list, k, oc) => FlagAfter(list, k + 1, oc)
        /\ NoOverflow =>
               /\ Cardinality({i \in 1..Len(list) :
                                   /\ list[i].suffix = <<"m">>
                                   /\ ~IsZero(CountOf(list, i))
                                   /\ SecondsOf(i) = Mul(CountOf(list, i), 60)}) <= 1
               /\ \A i \in 1..Len(list) :
                      list[i].suffix = <<"m">> =>
                          /\ \A j \in (i + 1)..Len(list) :
                                 list[j].suffix = <<"m">> =>
                                     SecondsOf(i) = Mul(CountOf(list, i), MONTH)
                          /\ SecondsOf(i) = Mul(CountOf(list, i), 60) =>
                                 (IsMinutesToken(list, i) \/ IsZero(CountOf(list, i)))

\* a scan that set the flag at an `m` counted as minutes and then met
\* another `m`, counted as months
C19_Witness ==
    /\ ParseDone /\ NoOverflow
    /\ \E k \in 1..(Len(list) - 1) :
          /\ ~FlagAfter(list, k - 1, TRUE) /\ FlagAfter(list, k, TRUE)
          /\ FlagAfter(list, Len(list), TRUE)
          /\ list[Len(list) - k + 1].suffix = <<"m">>
          /\ \E i \in 1..(Len(list) - k) :
                /\ list[i].suffix = <<"m">>
                /\ SecondsOf(i) = Mul(CountOf(list, i), MONTH)

\* C20: two distinct durations (s1, ns1) # (s2, ns2) with ns < 1e9 never
\* format to the same text, padded or compact: the place of each `m` token
\* tells a months token from a minutes token
C20_FormatIsUnambiguous ==
    FormatDone =>
        \A x \in Durations : format_internal(x, call.pad) = ret.str => x = d

\* the token buffer of format_internal before `if pad { s.truncate(..) }`
TokenBuffer == push_fields(breakdown, spad(call.pad), 1, <<>>)

\* C21: for every pair (s, ns) other than (0, 0) at least one field of the
\* breakdown is nonzero, so the token buffer of the padded form is not empty
\* when its trailing separator is removed (s.len() - 1 does not underflow):
\* it ends with that separator, the text returned is the buffer without it,
\* and neither form returns the empty string
C21_PaddedFormatCannotFail ==
    (FormatDone /\ d # ZeroDuration) =>
        /\ \E part \in DurationPart : ~IsZero(breakdown[part])
        /\ Len(TokenBuffer) >= 1
        /\ call.pad => /\ TokenBuffer[Len(TokenBuffer)] = " "
                       /\ ret.str \o <<" ">> = TokenBuffer
        /\ ret.exit = "ok" /\ Len(ret.str) >= 2

\* the padded form of one nanosecond: one token, and the separator after it
\* removed
C21_Witness ==
    /\ FormatDone /\ call.pad
    /\ d = Dur(Zero, One)
    /\ TokenBuffer = <<"1", "n", "s", " ">>
    /\ ret.str = <<"1", "n", "s">>

\* C22: the nanoseconds of every pair that parse_to_ns returns are a count
\* below one second, strictly less than 1,000,000,000, for every text, those
\* whose ms, us and ns tokens add up to a second or more included (the state
\* after parse holds the pair in times)
C22_SubsecondRange ==
    (ParseDone /\ times.exit = "ok") => Lt(times.ns, Nat10(NANOS_PER_SEC))

\* C23: for the breakdown b that DurationBreakdown::new made of a duration,
\* every set S of parts and every limit k, decomposing what filter(b, S) and
\* truncate(b, k) recompose to gives filter(b, S) and truncate(b, k) back: no
\* zeroed field reappears and no field that was kept changes, in the pair
\* that as_times returns and in the duration that is built from it and
\* decomposed again for formatting (the state holds b in breakdown, the
\* filtered or truncated breakdown in obj and the pair in times)
C23_StableUnderRedecomposition ==
    (FilterDone \/ TruncateDone) =>
        /\ \A part \in DurationPart : obj[part] \in {breakdown[part], Zero}
        /\ times = Pair(DurationBreakdown_as_times(obj))
        /\ breakdown_of(times) = obj
        /\ ret.exit = "ok"
        /\ breakdown_of(as_times(RetDuration)) = obj

\* a filter that zeroes the fields around the ones it keeps: 1y 3m 1w 4d 10m
\* 10s filtered to months, weeks and days
C23_Witness ==
    /\ FilterDone /\ call.filter = {"months", "weeks", "days"}
    /\ d = Dur(Nat10(40263010), Zero)
    /\ ~IsZero(breakdown.years) /\ ~IsZero(breakdown.minutes)
    /\ IsZero(obj.years) /\ IsZero(obj.minutes)
    /\ obj.months = <<3>> /\ obj.weeks = <<1>> /\ obj.days = <<4>>
    /\ breakdown_of(as_times(RetDuration)) = obj

\* C24: filter and truncate never grow a duration and never fail: for a
\* receiver whose pair has nanoseconds < 1e9, the pair that as_times
\* recomposes after filter or after truncate has seconds <= the receiver's
\* seconds and nanoseconds <= the receiver's nanoseconds; both sums fit 64
\* bits (the terms are not negative, so every product and partial sum of
\* as_times is at most its sum), the nanoseconds pass from_times' conversion
\* to u32, Duration::new carries nothing and the call returns that pair
C24_NeverGrowsNeverFails ==
    ((FilterDone \/ TruncateDone) /\ Lt(d.nanos, Nat10(NANOS_PER_SEC))) =>
        /\ times.exit = "ok"
        /\ Fits64(times.s) /\ Fits64(times.ns)
        /\ Le(times.s, d.secs) /\ Le(times.ns, d.nanos)
        /\ Le(times.ns, U32_MAX)
        /\ ret.exit = "ok"
        /\ ret.secs = times.s /\ ret.nanos = times.ns

\* the largest Duration filtered to every part: the recomposition reaches
\* u64::MAX seconds and 999999999 nanoseconds
C24_Witness ==
    /\ FilterDone /\ call.filter = DurationPart
    /\ d = Dur(U64_MAX, Nat10(NANOS_PER_SEC - 1))
    /\ times.s = U64_MAX /\ times.ns = Nat10(NANOS_PER_SEC - 1)
    /\ ret.exit = "ok" /\ RetDuration = d

(***************************************************************************)
(* Calls from several threads.  The threads share the receiver d (a        *)
(* &FancyDuration) and the static FANCY_FORMAT; everything else a call     *)
(* touches is in its own frame.  A call is split at every read of shared   *)
(* state and at every turn of parse_to_ns' loop, and the steps of the      *)
(* threads interleave freely.  A thread starts its next call from the      *)
(* frame its last call left.                                               *)
(***************************************************************************)
\* the texts the threads parse: a minute, a month before a minute, a sum of
\* seconds that overflows u64, and a count that is no u64
ThreadTexts ==
    {<<"1", "m">>,
     <<"2", "m", " ", "1", "m">>,
     <<"1", "8", "4", "4", "6", "7", "4", "4", "0", "7", "3", "7", "0", "9", "5", "5", "1", "6", "1", "5", "s", " ", "1", "s">>,
     <<"1", "s", " ", "1", "8", "4", "4", "6", "7", "4", "4", "0", "7", "3", "7", "0", "9", "5", "5", "1", "6", "1", "6", "s">>}

\* the durations the threads share
Receivers ==
    {Dur(Nat10(HOUR + MINUTE), Nat10(30 * MICRO)),
     Dur(Nat10(MONTH + MINUTE + 5), Zero)}

ThreadFilters == {{"minutes"}, {"hours", "minutes", "seconds"}}

ThreadLimits == {1, 2}

\* the variables of the single caller, which the threads leave alone
caller == <<text, call, ret, breakdown, obj, list, times>>

ThreadInit ==
    /\ threads = [t \in Threads |-> NoFrame]
    /\ lazy = "uninit"
    /\ d \in Receivers
    /\ text = <<>>
    /\ call = Call("none", FALSE, {}, 0)
    /\ ret = NoReturn
    /\ breakdown = ZeroBreakdown
    /\ obj = ZeroBreakdown
    /\ list = <<>>
    /\ times = NoTimes

\* a thread is between calls
Idle(t) == threads[t].pc \in {"idle", "done"}

\* parse_to_ns' locals kept from the frame the last call left
enter_parse_keeps_accumulators(frame, s, oc) ==
    [Frame("deref", "parse", s, oc, FALSE, {}, 0, ZeroDuration) EXCEPT !.acc = frame.acc]

\* the entry of parse_to_ns(s) on a thread whose last call left frame:
\* let mut subseconds = 0; let mut seconds = 0; let mut past_minutes = false;
\* let mut list = Vec::new();
enter_parse(frame, s, oc) ==
    Frame("deref", "parse", s, oc, FALSE, {}, 0, ZeroDuration)

\* FancyDuration::<Duration>::parse(&s), built with overflow checks (oc) or
\* without
EnterParse(t, s, oc) ==
    /\ Idle(t)
    /\ threads' = [threads EXCEPT ![t] = enter_parse(@, s, oc)]
    /\ UNCHANGED <<d, lazy, caller>>

\* self.format() and self.format_compact() on the shared receiver
EnterFormat(t, pad) ==
    /\ Idle(t)
    /\ threads' = [threads EXCEPT ![t] = Frame("as_times", "format", <<>>, FALSE, pad, {}, 0, d)]
    /\ UNCHANGED <<d, lazy, caller>>

\* self.filter(&filter) on the shared receiver
EnterFilter(t, filter) ==
    /\ Idle(t)
    /\ threads' = [threads EXCEPT ![t] = Frame("as_times", "filter", <<>>, FALSE, FALSE, filter, 0, d)]
    /\ UNCHANGED <<d, lazy, caller>>

\* self.truncate(limit) on the shared receiver
EnterTruncate(t, limit) ==
    /\ Idle(t)
    /\ threads' = [threads EXCEPT ![t] = Frame("as_times", "truncate", <<>>, FALSE, FALSE, {}, limit, d)]
    /\ UNCHANGED <<d, lazy, caller>>

\* the dereference of FANCY_FORMAT: the Once of lazy_static lets exactly one
\* thread build the Regex, and every later dereference finds it built
Deref(t) ==
    /\ threads[t].pc = "deref"
    /\ lazy' = "ready"
    /\ threads' = [threads EXCEPT ![t].pc = "collect"]
    /\ UNCHANGED <<d, caller>>

\* for item in FANCY_FORMAT.captures_iter(s) { list.push(..) }
Collect(t) ==
    /\ threads[t].pc = "collect"
    /\ lazy = "ready"
    /\ threads' = [threads EXCEPT ![t] =
                       [@ EXCEPT !.pc = "scan",
                                 !.list = captures_iter(threads[t].text),
                                 !.i = Len(captures_iter(threads[t].text))]]
    /\ UNCHANGED <<d, lazy, caller>>

\* one turn of for (value, suffix) in list.iter().rev()
ScanTurn(t) ==
    /\ threads[t].pc = "scan"
    /\ threads[t].i > 0
    /\ threads[t].acc.exit = "none"
    /\ threads' = [threads EXCEPT ![t] =
                       [@ EXCEPT !.acc = match_suffix(threads[t].acc,
                                                      threads[t].list[threads[t].i].value,
                                                      threads[t].list[threads[t].i].suffix,
                                                      threads[t].oc),
                                 !.i = threads[t].i - 1]]
    /\ UNCHANGED <<d, lazy, caller>>

\* the end of the loop, or the `?` or the panic that left it, and
\* parse_to_duration's Duration::new
ParseReturn(t) ==
    /\ threads[t].pc = "scan"
    /\ threads[t].i = 0 \/ threads[t].acc.exit # "none"
    /\ threads' = [threads EXCEPT ![t] =
                       [@ EXCEPT !.pc = "done",
                                 !.times = scan_result(threads[t].acc),
                                 !.ret = With(scan_result(threads[t].acc),
                                              LAMBDA ns : Returned(duration_of(ns)))]]
    /\ UNCHANGED <<d, lazy, caller>>

\* let times = self.0.as_times(): the read of the shared receiver
ReadSelf(t) ==
    /\ threads[t].pc = "as_times"
    /\ threads' = [threads EXCEPT ![t] =
                       [@ EXCEPT !.pc = "times", !.times = Pair(as_times(d))]]
    /\ UNCHANGED <<d, lazy, caller>>

\* the rest of format_internal, on the pair it read
FormatReturn(t) ==
    /\ threads[t].pc = "times"
    /\ threads[t].op = "format"
    /\ threads' = [threads EXCEPT ![t] =
                       [@ EXCEPT !.pc = "done",
                                 !.ret = ReturnedString(format_times(threads[t].times, threads[t].pad))]]
    /\ UNCHANGED <<d, lazy, caller>>

\* let filtered = DurationBreakdown::new(times.0, times.1).filter(filter)
\* .as_times(); obj.0 = self.0.from_times(filtered.0, filtered.1); obj
filter_rest(pair, filter) ==
    With(breakdown_of(pair),
         LAMBDA new : With(DurationBreakdown_filter(new, filter),
         LAMBDA kept : With(DurationBreakdown_as_times(kept),
         LAMBDA filtered : Returned(from_pair(filtered)))))

\* the rest of filter, on the pair it read: the result is a new value
FilterReturn(t) ==
    /\ threads[t].pc = "times"
    /\ threads[t].op = "filter"
    /\ threads' = [threads EXCEPT ![t] =
                       [@ EXCEPT !.pc = "done",
                                 !.ret = filter_rest(threads[t].times, threads[t].filter)]]
    /\ UNCHANGED <<d, lazy, caller>>

\* let truncated = DurationBreakdown::new(times.0, times.1).truncate(limit)
\* .as_times(); obj.0 = self.0.from_times(truncated.0, truncated.1); obj
truncate_rest(pair, limit) ==
    With(breakdown_of(pair),
         LAMBDA new : With(DurationBreakdown_truncate(new, limit),
         LAMBDA kept : With(DurationBreakdown_as_times(kept),
         LAMBDA truncated : Returned(from_pair(truncated)))))

\* the rest of truncate, on the pair it read: the result is a new value
TruncateReturn(t) ==
    /\ threads[t].pc = "times"
    /\ threads[t].op = "truncate"
    /\ threads' = [threads EXCEPT ![t] =
                       [@ EXCEPT !.pc = "done",
                                 !.ret = truncate_rest(threads[t].times, threads[t].limit)]]
    /\ UNCHANGED <<d, lazy, caller>>

ThreadNext ==
    \/ \E t \in Threads, s \in ThreadTexts, oc \in BOOLEAN : EnterParse(t, s, oc)
    \/ \E t \in Threads, pad \in BOOLEAN : EnterFormat(t, pad)
    \/ \E t \in Threads, filter \in ThreadFilters : EnterFilter(t, filter)
    \/ \E t \in Threads, limit \in ThreadLimits : EnterTruncate(t, limit)
    \/ \E t \in Threads : Deref(t)
    \/ \E t \in Threads : Collect(t)
    \/ \E t \in Threads : ScanTurn(t)
    \/ \E t \in Threads : ParseReturn(t)
    \/ \E t \in Threads : ReadSelf(t)
    \/ \E t \in Threads : FormatReturn(t)
    \/ \E t \in Threads : FilterReturn(t)
    \/ \E t \in Threads : TruncateReturn(t)

ThreadSpec == ThreadInit /\ [][ThreadNext]_vars

\* what the call of a frame returns when nothing else runs, from its
\* arguments alone
ResultOf(frame) ==
    CASE frame.op = "parse" -> Returned(parse_to_duration(frame.text, frame.oc))
      [] frame.op = "format" -> ReturnedString(format_internal(frame.self, frame.pad))
      [] frame.op = "filter" -> Returned(FancyDuration_filter(frame.self, frame.filter))
      [] frame.op = "truncate" -> Returned(FancyDuration_truncate(frame.self, frame.limit))

\* the arguments of the call of a frame
ArgumentsOf(frame) ==
    <<frame.op, frame.text, frame.oc, frame.pad, frame.filter, frame.limit, frame.self>>

\* C25: statelessness: whatever calls the threads have made before and
\* however their steps interleave, a call that has returned has returned
\* what its own arguments give when nothing else runs, so two calls with the
\* same arguments have returned the same; the receiver that a format, filter
\* or truncate call was made on is still the value it was, and once a
\* parse has dereferenced the tokenizer pattern the pattern stays built
C25_Stateless ==
    /\ \A t \in Threads :
          threads[t].pc = "done" =>
              \A expected \in {ResultOf(threads[t])} : threads[t].ret = expected
    /\ \A t, u \in Threads :
          (/\ threads[t].pc = "done" /\ threads[u].pc = "done"
           /\ ArgumentsOf(threads[t]) = ArgumentsOf(threads[u])) =>
              threads[t].ret = threads[u].ret
    /\ \A t \in Threads :
          threads[t].op \in {"format", "filter", "truncate"} => threads[t].self = d
    /\ \A t \in Threads :
          (threads[t].op = "parse" /\ threads[t].pc # "deref") => lazy = "ready"

\* thread a has returned one minute for "1m" while thread b is in the loop
\* of "2m 1m" with past_minutes set, the 2m still to come
C25_Witness ==
    /\ threads["a"].pc = "done" /\ threads["a"].op = "parse"
    /\ threads["a"].text = <<"1", "m">>
    /\ threads["a"].ret = Returned(Ok(Nat10(MINUTE), Zero))
    /\ threads["b"].pc = "scan" /\ threads["b"].i = 1
    /\ threads["b"].text = <<"2", "m", " ", "1", "m">>
    /\ threads["b"].acc.past_minutes
    /\ lazy = "ready"

=============================================================================
